---- MODULE Spec2Model ----
(***************************************************************************)
(* Model of anus/models/model_router.py (ModelRouter) and                  *)
(* anus/models/gemini_model.py (GeminiModel, GeminiChat).                  *)
(*                                                                         *)
(* Python dicts are modelled as sequences of key/value pairs so that the   *)
(* insertion order that dict iteration follows is part of the state.       *)
(* A configuration mapping is a record over the keys the code looks at;    *)
(* a key that is not in the mapping has the value Absent.                  *)
(* Object identity of a model instance is its id, taken from nextId.       *)
(***************************************************************************)
EXTENDS Integers, Sequences, FiniteSets, TLC

\* ----------------------------------------------------------------- bounds
MaxInst == 2
MaxFrags == 3
MaxTurns == 2

\* -------------------------------------------------------------- universes
Absent == "<absent>"
NoneStr == "<None>"

RegisterKeys == {"openai", "Claude"}
RegisterClasses == {"CustomModel"}
RegisterNames == {"chat1", "chat2"}
LookupNames == {"chat1", "nope"}
Tasks == {"summarize", "translate"}

\* str.lower() on the provider strings of the model
Lower(s) ==
  CASE s = "GEMINI" -> "gemini"
    [] s = "Claude" -> "claude"
    [] OTHER -> s

\* the empty dict
EmptyConfig == [provider |-> Absent, model_name |-> Absent, api_key |-> Absent, temperature |-> Absent]
\* Python None passed where a mapping is expected
NoneConfig == [provider |-> NoneStr, model_name |-> NoneStr, api_key |-> NoneStr, temperature |-> NoneStr]
\* the literal of ModelRouter.__init__
DefaultConfig == [provider |-> "openai", model_name |-> "gpt-4", api_key |-> Absent, temperature |-> "0.0"]

Configs == {EmptyConfig,
            [EmptyConfig EXCEPT !.provider = "gemini", !.api_key = "k"],
            [EmptyConfig EXCEPT !.provider = "GEMINI"],
            [EmptyConfig EXCEPT !.provider = "Claude", !.model_name = "m1"],
            [EmptyConfig EXCEPT !.provider = "mistral"]}
InitConfigs == {NoneConfig, EmptyConfig, [EmptyConfig EXCEPT !.provider = "GEMINI"]}

\* truth value of a mapping-or-None in a Python condition
Truthy(c) == c # NoneConfig /\ c # EmptyConfig

\* Python None where a model instance is expected
NoInst == [id |-> 0, cls |-> NoneStr, kwargs |-> NoneConfig]

\* --------------------------------------------------------- dict helpers
Keys(d) == {d[i].k : i \in 1..Len(d)}
HasKey(d, key) == \E i \in 1..Len(d) : d[i].k = key
Lookup(d, key) == d[CHOOSE i \in 1..Len(d) : d[i].k = key].v
\* d[key] = val : an existing key keeps its position, a new key goes last
DictSet(d, key, val) ==
  IF HasKey(d, key)
  THEN [i \in 1..Len(d) |-> IF d[i].k = key THEN [k |-> key, v |-> val] ELSE d[i]]
  ELSE Append(d, [k |-> key, v |-> val])

\* ------------------------------------------------------ model instances
\* GeminiModel.__init__ : the arguments an instance keeps
GeminiInit(kwargs) ==
  [model_name |-> IF kwargs.model_name = Absent THEN "gemini-2.0-flash" ELSE kwargs.model_name,
   api_key |-> IF kwargs.api_key = Absent THEN "" ELSE kwargs.api_key,
   temperature |-> IF kwargs.temperature = Absent THEN "0.0" ELSE kwargs.temperature]

\* model.model_name of an instance
ModelName(inst) ==
  IF inst.cls = "GeminiModel" THEN GeminiInit(inst.kwargs).model_name
  ELSE inst.kwargs.model_name

\* GeminiModel.get_model_details()["provider"]
GeminiDetailsProvider == "gemini"

\* get_model_details()["provider"] of the adapters whose source is not in src/
OtherDetailsProvider(cls) == IF cls = "OpenAIModel" THEN "openai" ELSE "claude"

DetailsProvider(inst) ==
  IF inst.cls = "GeminiModel" THEN GeminiDetailsProvider ELSE OtherDetailsProvider(inst.cls)

\* the object a successful constructor call yields
NewInstance(id, cls, kwargs) == [id |-> id, cls |-> cls, kwargs |-> kwargs]

\* -------------------------------------------- _create_model_from_config
\* provider = config.get("provider", "openai").lower()
ConfigProvider(cfg) == Lower(IF cfg.provider = Absent THEN "openai" ELSE cfg.provider)

\* variant: the substituted baseline is the wrong registry entry
ResolveProviderGemini(classes, cfg) ==
  IF HasKey(classes, ConfigProvider(cfg)) THEN ConfigProvider(cfg) ELSE "gemini"

\* if provider not in self.model_classes: provider = "openai"
ResolveProvider(classes, cfg) ==
  IF HasKey(classes, ConfigProvider(cfg)) THEN ConfigProvider(cfg) ELSE "openai"

\* variant: the provider key is popped from the caller's mapping itself
PopInPlace(cfg) ==
  [kwargs |-> [cfg EXCEPT !.provider = Absent], config |-> [cfg EXCEPT !.provider = Absent]]

\* kwargs = config.copy(); kwargs.pop("provider", None)
\* yields the keyword arguments and the caller's mapping after the two statements
CopyAndPop(cfg) == [kwargs |-> [cfg EXCEPT !.provider = Absent], config |-> cfg]

\* OpenAIModel(model_name="gpt-4")
FallbackKwargs == [EmptyConfig EXCEPT !.model_name = "gpt-4"]
FallbackClass == "OpenAIModel"

\* variant: the construction error is turned into ValueError with no fallback
CreateFallbackNone(first, id, okFallback) ==
  [kind |-> "raise", inst |-> NoInst, exc |-> "ValueError", attempts |-> <<first>>]

\* the except branch: one fallback construction, ValueError when it raises too
CreateFallback(first, id, okFallback) ==
  LET second == [cls |-> FallbackClass, kwargs |-> FallbackKwargs, ok |-> okFallback]
  IN IF okFallback
     THEN [kind |-> "return", inst |-> NewInstance(id, FallbackClass, FallbackKwargs),
           exc |-> NoneStr, attempts |-> <<first, second>>]
     ELSE [kind |-> "raise", inst |-> NoInst,
           exc |-> "ValueError", attempts |-> <<first, second>>]

\* the error messages logged before the try block
CreateLogs(classes, cfg) ==
  (IF HasKey(classes, ConfigProvider(cfg)) THEN {} ELSE {"unknown provider"})
  \cup (IF ResolveProvider(classes, cfg) = "gemini" /\ cfg.api_key = Absent
        THEN {"api key missing"} ELSE {})

\* _create_model_from_config(config); okPrimary / okFallback say whether the
\* two constructor calls succeed (they depend on the remote service)
CreateModelFromConfig(classes, cfg, id, okPrimary, okFallback) ==
  LET provider == ResolveProvider(classes, cfg)
      model_class == Lookup(classes, provider)
      cp == CopyAndPop(cfg)
      first == [cls |-> model_class, kwargs |-> cp.kwargs, ok |-> okPrimary]
      r == IF okPrimary
           THEN [kind |-> "return", inst |-> NewInstance(id, model_class, cp.kwargs),
                 exc |-> NoneStr, attempts |-> <<first>>]
           ELSE CreateFallback(first, id, okFallback)
  IN [kind |-> r.kind, inst |-> r.inst, exc |-> r.exc, attempts |-> r.attempts,
      provider |-> provider, logs |-> CreateLogs(classes, cfg), mapping |-> cp.config]

\* variant: no check of self.default_model, every call constructs
GetDefaultModelNoMemo(classes, dflt, dcfg, id, okPrimary, okFallback) ==
  LET r == CreateModelFromConfig(classes, dcfg, id, okPrimary, okFallback)
  IN [kind |-> r.kind, inst |-> r.inst, exc |-> r.exc, attempts |-> r.attempts,
      logs |-> r.logs,
      default_model |-> IF r.kind = "return" THEN r.inst ELSE dflt,
      default_model_config |-> r.mapping]

\* ------------------------------------------------------ get_default_model
\* the outcome of a call: the result, and self.default_model and
\* self.default_model_config after it
GetDefaultModel(classes, dflt, dcfg, id, okPrimary, okFallback) ==
  IF dflt = NoInst
  THEN LET r == CreateModelFromConfig(classes, dcfg, id, okPrimary, okFallback)
       IN [kind |-> r.kind, inst |-> r.inst, exc |-> r.exc, attempts |-> r.attempts,
           logs |-> r.logs,
           default_model |-> IF r.kind = "return" THEN r.inst ELSE dflt,
           default_model_config |-> r.mapping]
  ELSE [kind |-> "return", inst |-> dflt, exc |-> NoneStr, attempts |-> <<>>,
        logs |-> {}, default_model |-> dflt, default_model_config |-> dcfg]

\* a call that went through _create_model_from_config with a caller's mapping
FromConfig(classes, dflt, dcfg, cfg, id, okPrimary, okFallback) ==
  LET r == CreateModelFromConfig(classes, cfg, id, okPrimary, okFallback)
  IN [kind |-> r.kind, inst |-> r.inst, exc |-> r.exc, attempts |-> r.attempts,
      logs |-> r.logs, default_model |-> dflt, default_model_config |-> dcfg,
      mapping |-> r.mapping]

\* a call that ended in get_default_model(); cfg is the caller's argument, which
\* is not passed on
FromDefault(classes, dflt, dcfg, cfg, id, okPrimary, okFallback) ==
  LET r == GetDefaultModel(classes, dflt, dcfg, id, okPrimary, okFallback)
  IN [kind |-> r.kind, inst |-> r.inst, exc |-> r.exc, attempts |-> r.attempts,
      logs |-> r.logs, default_model |-> r.default_model,
      default_model_config |-> r.default_model_config, mapping |-> cfg]

\* ------------------------------------------------------------- get_model
\* variant: an unknown name builds a model from the default configuration
\* without going through get_default_model()
GetModelFreshDefault(mods, classes, dflt, dcfg, arg, id, okPrimary, okFallback) ==
  IF arg.tag = "str" /\ HasKey(mods, arg.name)
  THEN [kind |-> "return", inst |-> Lookup(mods, arg.name), exc |-> NoneStr,
        attempts |-> <<>>, logs |-> {}, default_model |-> dflt,
        default_model_config |-> dcfg, mapping |-> arg.cfg]
  ELSE IF arg.tag = "dict"
  THEN FromConfig(classes, dflt, dcfg, arg.cfg, id, okPrimary, okFallback)
  ELSE [FromConfig(classes, dflt, dcfg, dcfg, id, okPrimary, okFallback)
          EXCEPT !.mapping = arg.cfg]

\* arg.tag is the Python type of name_or_config: "str", "dict" or "other"
GetModel(mods, classes, dflt, dcfg, arg, id, okPrimary, okFallback) ==
  IF arg.tag = "str"
  THEN IF HasKey(mods, arg.name)
       THEN [kind |-> "return", inst |-> Lookup(mods, arg.name), exc |-> NoneStr,
             attempts |-> <<>>, logs |-> {}, default_model |-> dflt,
             default_model_config |-> dcfg, mapping |-> arg.cfg]
       ELSE [FromDefault(classes, dflt, dcfg, arg.cfg, id, okPrimary, okFallback)
               EXCEPT !.logs = @ \cup {"model not found"}]
  ELSE IF arg.tag = "dict"
  THEN FromConfig(classes, dflt, dcfg, arg.cfg, id, okPrimary, okFallback)
  ELSE [FromDefault(classes, dflt, dcfg, arg.cfg, id, okPrimary, okFallback)
          EXCEPT !.logs = @ \cup {"invalid specification"}]

\* variant: "if requirements is not None" in place of "if requirements"
SelectModelForTaskNotNone(classes, dflt, dcfg, task, requirements, id, okPrimary, okFallback) ==
  IF requirements # NoneConfig
  THEN FromConfig(classes, dflt, dcfg, requirements, id, okPrimary, okFallback)
  ELSE FromDefault(classes, dflt, dcfg, requirements, id, okPrimary, okFallback)

\* ------------------------------------------------- select_model_for_task
SelectModelForTask(classes, dflt, dcfg, task, requirements, id, okPrimary, okFallback) ==
  IF Truthy(requirements)
  THEN FromConfig(classes, dflt, dcfg, requirements, id, okPrimary, okFallback)
  ELSE FromDefault(classes, dflt, dcfg, requirements, id, okPrimary, okFallback)

\* ------------------------------------------------- list_available_models
InstanceInfo(entry) ==
  [name |-> entry.k, type |-> entry.v.cls, model_name |-> ModelName(entry.v),
   provider |-> DetailsProvider(entry.v), bare |-> FALSE]

ClassInfo(entry) ==
  [name |-> entry.k, type |-> entry.v, model_name |-> Absent,
   provider |-> entry.k, bare |-> TRUE]

RECURSIVE AddProvidersNoSkip(_, _, _)
\* variant: every registered provider is listed
AddProvidersNoSkip(info, classes, i) ==
  IF i > Len(classes) THEN info
  ELSE AddProvidersNoSkip(Append(info, ClassInfo(classes[i])), classes, i + 1)

RECURSIVE AddProviders(_, _, _)
\* the second loop, from registry position i on
AddProviders(info, classes, i) ==
  IF i > Len(classes) THEN info
  ELSE IF classes[i].k \notin {info[j].provider : j \in 1..Len(info)}
       THEN AddProviders(Append(info, ClassInfo(classes[i])), classes, i + 1)
       ELSE AddProviders(info, classes, i + 1)

ListAvailableModels(mods, classes) ==
  AddProviders([i \in 1..Len(mods) |-> InstanceInfo(mods[i])], classes, 1)

VARIABLES
  models,                \* self.models : name -> instance
  model_classes,         \* self.model_classes : provider -> constructor
  default_model_config,  \* self.default_model_config
  default_model,         \* self.default_model (NoInst = None)
  nextId,                \* identity of the next object constructed
  ret,                   \* what the last router call did and returned
  pre,                   \* the router's fields when the last router call began
  client,                \* GeminiModel.client ("none", "ready")
  chat,                  \* remote chat session of the GeminiChat
  stream,                \* the generator of generate_text_stream
  aret                   \* what the last adapter call did and returned

routerVars == <<models, model_classes, default_model_config, default_model, nextId, ret, pre>>
adapterVars == <<client, chat, stream, aret>>
vars == <<models, model_classes, default_model_config, default_model, nextId, ret, pre,
          client, chat, stream, aret>>

\* ---------------------------------------------------------- router state
NoRet == [op |-> "init", name |-> NoneStr, cfg |-> NoneConfig, mapping |-> NoneConfig,
          kind |-> "return",
          inst |-> NoInst, exc |-> NoneStr, attempts |-> <<>>, logs |-> {}, list |-> <<>>]

\* the record of a call that returned or raised outcome o
CallRet(op, name, cfg, o) ==
  [op |-> op, name |-> name, cfg |-> cfg, mapping |-> o.mapping, kind |-> o.kind, inst |-> o.inst,
   exc |-> o.exc, attempts |-> o.attempts, logs |-> o.logs, list |-> <<>>]

\* the router's fields now
Snapshot ==
  [models |-> models, model_classes |-> model_classes, default_model |-> default_model,
   default_model_config |-> default_model_config, nextId |-> nextId]

\* a successful construction consumed one object identity
Constructed(o) == o.kind = "return" /\ o.attempts # <<>>

InitialClasses == <<[k |-> "openai", v |-> "OpenAIModel"], [k |-> "gemini", v |-> "GeminiModel"]>>

\* ModelRouter.__init__(default_model_config)
RouterInit ==
  /\ models = <<>>
  /\ model_classes = InitialClasses
  /\ \E c \in InitConfigs : default_model_config = IF Truthy(c) THEN c ELSE DefaultConfig
  /\ default_model = NoInst
  /\ nextId = 1
  /\ ret = NoRet
  /\ pre = Snapshot

\* the instances a caller hands to register_model: ones it constructed itself
ExternalClasses == {"GeminiModel", "CustomModel"}
ExternalKwargs == {[EmptyConfig EXCEPT !.model_name = "m1"]}

register_model(name, model) ==
  /\ model # NoInst
  /\ model.id <= MaxInst
  /\ models' = DictSet(models, name, model)
  /\ nextId' = IF model.id = nextId THEN nextId + 1 ELSE nextId
  /\ ret' = [NoRet EXCEPT !.op = "register_model", !.name = name, !.inst = model]
  /\ pre' = Snapshot
  /\ UNCHANGED <<model_classes, default_model_config, default_model>>
  /\ UNCHANGED adapterVars

RegisterModel ==
  \E name \in RegisterNames, cls \in ExternalClasses, kw \in ExternalKwargs :
    register_model(name, NewInstance(nextId, cls, kw))

register_model_class(provider, model_class) ==
  /\ model_classes' = DictSet(model_classes, provider, model_class)
  /\ ret' = [NoRet EXCEPT !.op = "register_model_class", !.name = provider]
  /\ pre' = Snapshot
  /\ UNCHANGED <<models, default_model_config, default_model, nextId>>
  /\ UNCHANGED adapterVars

RegisterModelClass ==
  \E provider \in RegisterKeys, model_class \in RegisterClasses :
    register_model_class(provider, model_class)

\* the effect of a call with outcome o on the router; ret keeps the argument
\* mapping as passed (cfg) and as it is after the call (mapping)
Effect(op, name, cfg, o) ==
  /\ Constructed(o) => nextId <= MaxInst
  /\ default_model' = o.default_model
  /\ default_model_config' = o.default_model_config
  /\ nextId' = IF Constructed(o) THEN nextId + 1 ELSE nextId
  /\ ret' = CallRet(op, name, cfg, o)
  /\ pre' = Snapshot
  /\ UNCHANGED <<models, model_classes>>
  /\ UNCHANGED adapterVars

\* the fallback constructor runs only when the first one raised
FallbackOutcomes(okPrimary) == IF okPrimary THEN {TRUE} ELSE BOOLEAN

StrArg(name) == [tag |-> "str", name |-> name, cfg |-> NoneConfig]
DictArg(cfg) == [tag |-> "dict", name |-> NoneStr, cfg |-> cfg]
OtherArg == [tag |-> "other", name |-> NoneStr, cfg |-> NoneConfig]
GetModelArgs == {StrArg(n) : n \in LookupNames} \cup {DictArg(c) : c \in Configs} \cup {OtherArg}

get_model(arg, okPrimary, okFallback) ==
  Effect("get_model:" \o arg.tag, arg.name, arg.cfg,
         GetModel(models, model_classes, default_model, default_model_config,
                  arg, nextId, okPrimary, okFallback))

GetModelCall ==
  \E arg \in GetModelArgs, okPrimary \in BOOLEAN :
  \E okFallback \in FallbackOutcomes(okPrimary) :
    get_model(arg, okPrimary, okFallback)

get_default_model(okPrimary, okFallback) ==
  Effect("get_default_model", NoneStr, NoneConfig,
         FromDefault(model_classes, default_model, default_model_config, NoneConfig,
                     nextId, okPrimary, okFallback))

GetDefaultModelCall ==
  \E okPrimary \in BOOLEAN :
  \E okFallback \in FallbackOutcomes(okPrimary) : get_default_model(okPrimary, okFallback)

select_model_for_task(task, requirements, okPrimary, okFallback) ==
  Effect("select_model_for_task", NoneStr, requirements,
         SelectModelForTask(model_classes, default_model, default_model_config,
                            task, requirements, nextId, okPrimary, okFallback))

SelectModelForTaskCall ==
  \E task \in Tasks, requirements \in Configs \cup {NoneConfig}, okPrimary \in BOOLEAN :
  \E okFallback \in FallbackOutcomes(okPrimary) :
    select_model_for_task(task, requirements, okPrimary, okFallback)

list_available_models ==
  /\ ret' = [NoRet EXCEPT !.op = "list_available_models",
                          !.list = ListAvailableModels(models, model_classes)]
  /\ pre' = Snapshot
  /\ UNCHANGED <<models, model_classes, default_model_config, default_model, nextId>>
  /\ UNCHANGED adapterVars

Next ==
  \/ RegisterModel
  \/ RegisterModelClass
  \/ GetModelCall
  \/ GetDefaultModelCall
  \/ SelectModelForTaskCall
  \/ list_available_models

\* ------------------------------------------------- GeminiModel, GeminiChat
Fragments == {"a", "b"}
Texts == {"hello", ""}
Messages == {"hi"}
ReplyParts == {<<"r1">>, <<"r1", "r2">>}

NoStream == [pc |-> "none", delivered |-> <<>>, yielded |-> <<>>,
             failed |-> FALSE, raised |-> FALSE]
NoChat == [open |-> FALSE, history |-> <<>>]
NoARet == [op |-> "init", kind |-> "return", text |-> NoneStr, items |-> <<>>,
           remote_failed |-> FALSE]

AdapterIdle ==
  /\ client = "none"
  /\ chat = NoChat
  /\ stream = NoStream
  /\ aret = NoARet

\* GeminiModel.__init__ : genai.Client(...) succeeds, or its error is re-raised
GeminiConstruct(ok) ==
  [client |-> IF ok THEN "ready" ELSE "none",
   kind |-> IF ok THEN "return" ELSE "raise"]

gemini_init ==
  \E ok \in BOOLEAN :
    /\ client = "none"
    /\ client' = GeminiConstruct(ok).client
    /\ aret' = [NoARet EXCEPT !.op = "__init__", !.kind = GeminiConstruct(ok).kind,
                              !.remote_failed = ~ok]
    /\ UNCHANGED <<chat, stream>>
    /\ UNCHANGED routerVars

\* generate_text : response.text, or "" from the except branch
GenerateText(ok, text) ==
  [kind |-> "return", text |-> IF ok THEN text ELSE ""]

generate_text ==
  \E ok \in BOOLEAN, text \in Texts :
    /\ client = "ready"
    /\ aret' = [NoARet EXCEPT !.op = "generate_text", !.kind = GenerateText(ok, text).kind,
                              !.text = GenerateText(ok, text).text, !.remote_failed = ~ok]
    /\ UNCHANGED <<client, chat, stream>>
    /\ UNCHANGED routerVars

\* generate_text_stream(contents) : makes the generator; its body has not run yet
generate_text_stream ==
  /\ client = "ready"
  /\ stream' = [NoStream EXCEPT !.pc = "created"]
  /\ aret' = [NoARet EXCEPT !.op = "generate_text_stream"]
  /\ UNCHANGED <<client, chat>>
  /\ UNCHANGED routerVars

\* for chunk in response: yield chunk.text
StreamOnChunk(st, f) == [st EXCEPT !.pc = "suspended", !.yielded = Append(@, f)]

\* the remote stream hands out its next fragment
RemoteDeliver(st, f) == [st EXCEPT !.delivered = Append(@, f)]

\* the remote stream is exhausted: the generator returns
StreamOnEnd(st) == [st EXCEPT !.pc = "done"]

\* variant: no except branch, the error leaves the generator
StreamOnErrorReraise(st) == [st EXCEPT !.pc = "done", !.failed = TRUE, !.raised = TRUE]

\* except Exception: log, return iter([])  (the generator returns)
StreamOnError(st) == [st EXCEPT !.pc = "done", !.failed = TRUE]

\* one next() of the caller on the generator: the body runs to the next yield,
\* to its end, or into the except branch. event is what the remote does:
\* "open_fail" (generate_content_stream raises), "chunk", "end", "fail"
StreamStep(st, event, f) ==
  IF st.pc = "created" /\ event = "open_fail" THEN StreamOnError(st)
  ELSE IF event = "chunk" THEN StreamOnChunk(RemoteDeliver(st, f), f)
  ELSE IF event = "end" THEN StreamOnEnd(st)
  ELSE StreamOnError(st)

stream_next ==
  \E event \in {"open_fail", "chunk", "end", "fail"}, f \in Fragments :
    /\ stream.pc \in {"created", "suspended"}
    /\ event = "open_fail" => stream.pc = "created"
    /\ event = "chunk" => Len(stream.delivered) < MaxFrags
    /\ stream' = StreamStep(stream, event, f)
    /\ aret' = [NoARet EXCEPT !.op = "next",
                  !.kind = IF StreamStep(stream, event, f).raised THEN "raise" ELSE "return",
                  !.text = IF event = "chunk" THEN f ELSE NoneStr,
                  !.remote_failed = event \in {"open_fail", "fail"}]
    /\ UNCHANGED <<client, chat>>
    /\ UNCHANGED routerVars

\* create_chat : GeminiChat(chat_session), or the error re-raised
CreateChat(ok) ==
  [chat |-> IF ok THEN [open |-> TRUE, history |-> <<>>] ELSE NoChat,
   kind |-> IF ok THEN "return" ELSE "raise"]

create_chat ==
  \E ok \in BOOLEAN :
    /\ client = "ready"
    /\ chat' = IF ok THEN CreateChat(ok).chat ELSE chat
    /\ aret' = [NoARet EXCEPT !.op = "create_chat", !.kind = CreateChat(ok).kind,
                              !.remote_failed = ~ok]
    /\ UNCHANGED <<client, stream>>
    /\ UNCHANGED routerVars

\* the text of a remote response made of parts
PartsText(parts) == IF Len(parts) = 1 THEN parts[1] ELSE parts[1] \o parts[2]

\* variant: the error of the remote call is raised
SendMessageReraise(ok, parts) ==
  [kind |-> IF ok THEN "return" ELSE "raise", text |-> IF ok THEN PartsText(parts) ELSE NoneStr]

\* GeminiChat.send_message : response.text, or "" from the except branch
SendMessage(ok, parts) ==
  [kind |-> "return", text |-> IF ok THEN PartsText(parts) ELSE ""]

\* the remote session appends the caller's turn and the model's turn
RemoteAppend(history, message, parts) ==
  history \o <<[role |-> "user", parts |-> <<message>>], [role |-> "model", parts |-> parts]>>

send_message ==
  \E ok \in BOOLEAN, message \in Messages, parts \in ReplyParts :
    /\ chat.open
    /\ ok => Len(chat.history) < 2 * MaxTurns
    /\ chat' = IF ok THEN [chat EXCEPT !.history = RemoteAppend(@, message, parts)] ELSE chat
    /\ aret' = [NoARet EXCEPT !.op = "send_message", !.kind = SendMessage(ok, parts).kind,
                              !.text = SendMessage(ok, parts).text, !.remote_failed = ~ok]
    /\ UNCHANGED <<client, stream>>
    /\ UNCHANGED routerVars

\* GeminiChat.get_history : a list of {role, text: parts[0].text}, or iter([])
GetHistory(ok, history) ==
  [kind |-> "return",
   items |-> IF ok THEN [i \in 1..Len(history) |->
                           [role |-> history[i].role, text |-> history[i].parts[1]]]
             ELSE <<>>]

get_history ==
  \E ok \in BOOLEAN :
    /\ chat.open
    /\ aret' = [NoARet EXCEPT !.op = "get_history", !.kind = GetHistory(ok, chat.history).kind,
                              !.items = GetHistory(ok, chat.history).items,
                              !.remote_failed = ~ok]
    /\ UNCHANGED <<client, chat, stream>>
    /\ UNCHANGED routerVars

NextAdapter ==
  \/ gemini_init
  \/ generate_text
  \/ generate_text_stream
  \/ stream_next
  \/ create_chat
  \/ send_message
  \/ get_history

\* a router nobody calls, for the adapter's specification
RouterIdle ==
  /\ models = <<>>
  /\ model_classes = InitialClasses
  /\ default_model_config = DefaultConfig
  /\ default_model = NoInst
  /\ nextId = 1
  /\ ret = NoRet
  /\ pre = Snapshot

\* ------------------------------------------------------- specifications
Init == RouterInit /\ AdapterIdle
Spec == Init /\ [][Next]_vars

InitAdapter == RouterIdle /\ AdapterIdle
SpecAdapter == InitAdapter /\ [][NextAdapter]_vars

\* ================================================================ claims
RegisteredInstances(mods) == {mods[i].v : i \in 1..Len(mods)}

\* every object identity in the state is below nextId
IdsBelowNext ==
  /\ default_model.id < nextId
  /\ ret.inst.id < nextId
  /\ \A m \in RegisteredInstances(models) : m.id < nextId
  /\ pre.nextId <= nextId

\* inst is an object the last call constructed: it did not exist when the call began
Fresh(inst) ==
  /\ inst.id = pre.nextId
  /\ inst # pre.default_model
  /\ inst \notin RegisteredInstances(pre.models)

\* the last call went straight to _create_model_from_config with the caller's mapping
ViaConfig(r) ==
  r.op = "get_model:dict" \/ (r.op = "select_model_for_task" /\ Truthy(r.cfg))

\* C1: get_default_model() memoizes. A call made while no default exists, if
\* it succeeds, stores the one new instance it built from the default
\* configuration; once a default exists no call replaces it, and a
\* get_default_model() call returns that very instance without constructing.
C1_DefaultMemoized ==
  /\ pre.default_model # NoInst => default_model = pre.default_model
  /\ ret.op = "get_default_model" =>
       IF pre.default_model # NoInst
       THEN ret.kind = "return" /\ ret.inst = pre.default_model /\ ret.attempts = <<>>
       ELSE ret.kind = "return" =>
              /\ default_model = ret.inst
              /\ Fresh(ret.inst)
              /\ ret.attempts[1].kwargs = [pre.default_model_config EXCEPT !.provider = Absent]
              /\ ret.attempts[1].cls =
                   Lookup(pre.model_classes,
                          ResolveProvider(pre.model_classes, pre.default_model_config))

\* a second get_default_model() call has returned the memoized instance
C1_Witness ==
  /\ ret.op = "get_default_model"
  /\ pre.default_model # NoInst
  /\ ret.attempts = <<>>
  /\ ret.inst = default_model

\* C2: after register_model_class(K, F), get_model with a config whose
\* provider field is K returns an instance constructed by F, the constructor
\* registered for K (stated for the calls in which the constructor the router
\* calls does not raise).
C2_RegisteredConstructorUsed ==
  (/\ ret.op = "get_model:dict"
   /\ ret.cfg.provider # Absent
   /\ HasKey(pre.model_classes, ret.cfg.provider)
   /\ ret.attempts[1].ok)
  => (ret.kind = "return" /\ ret.inst.cls = Lookup(pre.model_classes, ret.cfg.provider))

\* C3 as written: whenever a requirements mapping is given (empty or not),
\* select_model_for_task constructs from that mapping and does not return the
\* default model.
C3_Original ==
  (ret.op = "select_model_for_task" /\ ret.cfg # NoneConfig)
  => /\ ret.attempts # <<>>
     /\ ret.attempts[1].kwargs = [ret.cfg EXCEPT !.provider = Absent]
     /\ ret.kind = "return" => ret.inst # default_model

\* C3 amended: with a non-empty requirements mapping the call goes through
\* _create_model_from_config with that mapping, leaves the default alone and
\* any instance it returns is new (not the default, not a registered one);
\* with None or an empty mapping it returns the default model (the memoized
\* one when it exists); every task gives the outcome the call had.
C3_SelectNonEmpty ==
  /\ ret.op = "select_model_for_task" =>
       IF Truthy(ret.cfg)
       THEN /\ ret.attempts # <<>>
            /\ ret.attempts[1].kwargs = [ret.cfg EXCEPT !.provider = Absent]
            /\ ret.attempts[1].cls =
                 Lookup(pre.model_classes, ResolveProvider(pre.model_classes, ret.cfg))
            /\ default_model = pre.default_model
            /\ ret.kind = "return" => (Fresh(ret.inst) /\ ret.inst # default_model)
       ELSE /\ ret.kind = "return" => ret.inst = default_model
            /\ pre.default_model # NoInst =>
                 (ret.kind = "return" /\ ret.inst = pre.default_model /\ ret.attempts = <<>>)
  /\ ret.op = "select_model_for_task" =>
       \A task \in Tasks : \E okP \in BOOLEAN, okF \in BOOLEAN :
         LET o == SelectModelForTask(pre.model_classes, pre.default_model,
                                     pre.default_model_config, task, ret.cfg,
                                     pre.nextId, okP, okF)
         IN CallRet(ret.op, ret.name, ret.cfg, o) = ret /\ o.default_model = default_model

\* select_model_for_task with an empty requirements mapping returned the
\* memoized default while a model is registered
C3_Witness ==
  /\ ret.op = "select_model_for_task"
  /\ ret.cfg = EmptyConfig
  /\ ret.attempts = <<>>
  /\ ret.inst = default_model
  /\ models # <<>>

\* C4 as written: for every config whose provider field is not a key of the
\* registry, the call constructs with the constructor registered for "openai"
\* and returns an instance without raising.
C4_Original ==
  (/\ ViaConfig(ret)
   /\ ret.cfg.provider # Absent
   /\ ~HasKey(pre.model_classes, ret.cfg.provider))
  => (ret.kind = "return" /\ ret.attempts[1].cls = Lookup(pre.model_classes, "openai"))

\* C4 amended: for every config whose lower-cased provider field is not a key
\* of the registry, the first construction uses the constructor registered
\* for "openai" with the config minus its provider key; its instance is
\* returned when it succeeds, and the call raises only when that construction
\* and the fallback construction both raise.
C4_UnknownProviderSubstituted ==
  (ViaConfig(ret) /\ ~HasKey(pre.model_classes, ConfigProvider(ret.cfg)))
  => /\ "unknown provider" \in ret.logs
     /\ ret.attempts[1].cls = Lookup(pre.model_classes, "openai")
     /\ ret.attempts[1].kwargs = [ret.cfg EXCEPT !.provider = Absent]
     /\ ret.attempts[1].ok =>
          (ret.kind = "return" /\ ret.inst.cls = Lookup(pre.model_classes, "openai"))
     /\ ret.kind = "raise" <=>
          (Len(ret.attempts) = 2 /\ ~ret.attempts[1].ok /\ ~ret.attempts[2].ok)

\* an unknown provider was given after "openai" was re-registered, and the
\* re-registered constructor built the instance
C4_Witness ==
  /\ ret.op = "get_model:dict"
  /\ ret.cfg.provider = "mistral"
  /\ ret.kind = "return"
  /\ ret.inst.cls = "CustomModel"

\* C5: when the first constructor call raises there is exactly one more
\* construction, OpenAIModel(model_name="gpt-4"); its instance is returned when
\* it succeeds, and ValueError is raised if and only if it raises too.
C5_OneFallback ==
  ret.attempts # <<>> =>
    /\ ret.attempts[1].ok => (Len(ret.attempts) = 1 /\ ret.kind = "return")
    /\ ~ret.attempts[1].ok =>
         /\ Len(ret.attempts) = 2
         /\ ret.attempts[2].cls = "OpenAIModel"
         /\ ret.attempts[2].kwargs = [EmptyConfig EXCEPT !.model_name = "gpt-4"]
         /\ ret.attempts[2].ok =>
              /\ ret.kind = "return"
              /\ ret.inst.cls = "OpenAIModel"
              /\ ret.inst.kwargs = ret.attempts[2].kwargs
         /\ ~ret.attempts[2].ok <=> (ret.kind = "raise" /\ ret.exc = "ValueError")
    /\ ret.kind = "raise" => ~ret.attempts[1].ok

\* the fallback instance was returned while "openai" is registered to another
\* constructor
C5_Witness ==
  /\ Len(ret.attempts) = 2
  /\ ret.kind = "return"
  /\ Lookup(model_classes, "openai") = "CustomModel"

\* C6: list_available_models() lists every registered instance first, in
\* registration order, then once each registered provider that no instance
\* reports as its provider, and no bare entry for a provider some instance
\* reports.
C6_NoDuplicateProvider ==
  LET L == ListAvailableModels(models, model_classes)
      n == Len(models)
      reported == {DetailsProvider(m) : m \in RegisteredInstances(models)}
  IN /\ ret.op = "list_available_models" => ret.list = L
     /\ Len(L) >= n
     /\ \A i \in 1..n : L[i] = InstanceInfo(models[i])
     /\ \A i \in (n + 1)..Len(L) :
          L[i].bare /\ L[i].name \notin reported /\ HasKey(model_classes, L[i].name)
     /\ \A p \in Keys(model_classes) \ reported :
          Cardinality({i \in (n + 1)..Len(L) : L[i].name = p}) = 1
     /\ \A p \in Keys(model_classes) \cap reported :
          \A i \in 1..Len(L) : ~(L[i].bare /\ L[i].name = p)

\* a listing made while two instances are registered and one of them reports
\* a registered provider
C6_Witness ==
  /\ ret.op = "list_available_models"
  /\ \E m \in RegisteredInstances(models) : HasKey(model_classes, DetailsProvider(m))
  /\ Len(ret.list) < Len(models) + Len(model_classes)
  /\ Len(models) = 2

\* C7 as written: get_model(name) for an unregistered name never raises and
\* returns the default instance.
C7_Original ==
  (ret.op = "get_model:str" /\ ~HasKey(pre.models, ret.name))
  => (ret.kind = "return" /\ ret.inst = default_model)

\* C7 amended: get_model(name) for an unregistered name does what
\* get_default_model() does: it returns the memoized default, creating and
\* memoizing it first if needed, and raises only the ValueError of a default
\* construction whose fallback failed too, which leaves the default unset.
C7_UnknownNameIsDefault ==
  (ret.op = "get_model:str" /\ ~HasKey(pre.models, ret.name)) =>
    /\ pre.default_model # NoInst =>
         (ret.kind = "return" /\ ret.inst = pre.default_model /\ ret.attempts = <<>>)
    /\ ret.kind = "return" => (ret.inst = default_model /\ default_model # NoInst)
    /\ (pre.default_model = NoInst /\ ret.kind = "return") => Fresh(ret.inst)
    /\ ret.kind = "raise" =>
         /\ ret.exc = "ValueError"
         /\ pre.default_model = NoInst /\ default_model = NoInst
         /\ Len(ret.attempts) = 2 /\ ~ret.attempts[1].ok /\ ~ret.attempts[2].ok
    /\ \E okP \in BOOLEAN, okF \in BOOLEAN :
         LET d == GetDefaultModel(pre.model_classes, pre.default_model,
                                  pre.default_model_config, pre.nextId, okP, okF)
         IN ret.kind = d.kind /\ ret.inst = d.inst /\ default_model = d.default_model

\* an unknown name was asked for while no default existed, and the default
\* was created and memoized
C7_Witness ==
  /\ ret.op = "get_model:str"
  /\ ret.name = "nope"
  /\ ret.attempts # <<>>
  /\ ret.kind = "return"
  /\ ret.inst = default_model

\* C8: the caller of generate_text_stream sees exactly the fragments the
\* remote stream delivered, in order; a failure of the stream (at opening or
\* later) ends the generator normally: no error reaches the caller and
\* nothing is yielded after it.
C8_StreamStopsAtFailure ==
  /\ stream.yielded = stream.delivered
  /\ ~stream.raised
  /\ stream.failed => stream.pc = "done"
  /\ aret.op = "next" => aret.kind = "return"

\* the stream failed after two fragments
C8_Witness ==
  /\ stream.failed
  /\ stream.pc = "done"
  /\ Len(stream.yielded) = 2

\* C9: when the remote call fails, generate_text and send_message return "",
\* get_history returns an empty sequence, none of them raising; the
\* constructor and create_chat raise.
C9_DegradeToEmpty ==
  aret.remote_failed =>
    /\ aret.op \in {"generate_text", "send_message"} => (aret.kind = "return" /\ aret.text = "")
    /\ aret.op = "get_history" => (aret.kind = "return" /\ aret.items = <<>>)
    /\ aret.op \in {"__init__", "create_chat"} => aret.kind = "raise"

\* send_message failed in a chat that already has turns
C9_Witness ==
  /\ aret.op = "send_message"
  /\ aret.remote_failed
  /\ Len(chat.history) > 0

\* C10: get_model with a config mapping and select_model_for_task with
\* non-empty requirements leave both registries, the memoized default and the
\* caller's mapping (its provider key included) as they were, whatever the
\* constructions do; a get_default_model() call that raises leaves the default
\* unset, and a call made while it is unset attempts construction.
C10_Frame ==
  /\ ViaConfig(ret) =>
       /\ models = pre.models
       /\ model_classes = pre.model_classes
       /\ default_model = pre.default_model
       /\ default_model_config = pre.default_model_config
       /\ ret.mapping = ret.cfg
  /\ ret.op = "get_default_model" =>
       /\ ret.kind = "raise" =>
            (default_model = NoInst /\ default_model_config = pre.default_model_config)
       /\ pre.default_model = NoInst => ret.attempts # <<>>

\* a config with a provider key went through the fallback while a model is
\* registered and a default is memoized
C10_Witness ==
  /\ ret.op = "get_model:dict"
  /\ ret.cfg.provider # Absent
  /\ Len(ret.attempts) = 2
  /\ models # <<>>
  /\ default_model # NoInst

====
